---- MODULE Spec2Model ----
(***************************************************************************)
(* A model of stderrlog (src/lib.rs): the StdErrLog sink, its builder      *)
(* setters, the module allow-set filter, installation through the `log`    *)
(* facade, and log() writing through a per-thread LineWriter<Stderr>.      *)
(***************************************************************************)
EXTENDS Integers, Sequences, FiniteSets, TLC

(***************************************************************************)
(* Bounds of the model.                                                    *)
(***************************************************************************)
\* threads that call into the sink
NThreads == 2
\* top-level log() calls the threads make in one behaviour
MaxCalls == 3
\* stderr writes that may fail in one behaviour
MaxFail == 1
\* init() calls in one behaviour
MaxInit == 2
\* largest verbosity count passed to verbosity()
MaxVerbosity == 5

Threads == 1 .. NThreads

(***************************************************************************)
(* log::LogLevelFilter / log::LogLevel, by their usize discriminants.      *)
(***************************************************************************)
Off == 0
Error == 1
Warn == 2
Info == 3
Debug == 4
Trace == 5

LogLevels == {Error, Warn, Info, Debug, Trace}

\* enum Timestamp
Timestamps == {"Off", "Second"}

(***************************************************************************)
(* Module paths: a &str is the tuple of its bytes.                         *)
(***************************************************************************)
P_a == <<97>>
P_ab == <<97, 98>>
P_abc == <<97, 98, 99>>
P_a_b == <<97, 58, 58, 98>>
P_a_c == <<97, 58, 58, 99>>
P_a_z == <<97, 58, 58, 122>>
P_a_b_c == <<97, 58, 58, 98, 58, 58, 99>>
P_a_b_z == <<97, 58, 58, 98, 58, 58, 122>>
P_z == <<122>>

\* paths a caller may register with module()/modules()
RegPaths == {P_a, P_ab, P_a_b, P_a_c, P_z}
\* paths record.location().module_path() may carry
QueryPaths == {P_a, P_ab, P_abc, P_a_b, P_a_c, P_a_z, P_a_b_c, P_a_b_z, P_z}

Min(a, b) == IF a <= b THEN a ELSE b

\* Ord for str: bytewise lexicographic, a proper prefix sorts first
StrLess(x, y) ==
    \/ /\ Len(x) < Len(y)
       /\ \A i \in 1 .. Len(x) : x[i] = y[i]
    \/ \E i \in 1 .. Min(Len(x), Len(y)) :
          /\ x[i] < y[i]
          /\ \A j \in 1 .. (i - 1) : x[j] = y[j]

StrLeq(x, y) == x = y \/ StrLess(x, y)

\* str::starts_with
StartsWith(s, prefix) ==
    /\ Len(prefix) <= Len(s)
    /\ \A i \in 1 .. Len(prefix) : s[i] = prefix[i]

\* BTreeSet::range((Unbounded, Included(bound)))
RangeUpTo(set, bound) == {m \in set : StrLeq(m, bound)}

\* DoubleEndedIterator::next_back on a non-empty range: its greatest element
NextBack(range) == CHOOSE m \in range : \A o \in range : StrLeq(o, m)

\* a wrong default for the empty range
includes_module_admit(modules, module_path) ==
    IF modules = {}
    THEN TRUE
    ELSE LET iter == RangeUpTo(modules, module_path)
         IN  IF iter # {}
             THEN StartsWith(module_path, NextBack(iter))
             ELSE TRUE

\* StdErrLog::includes_module
includes_module(modules, module_path) ==
    IF modules = {}
    THEN TRUE
    ELSE LET iter == RangeUpTo(modules, module_path)
         IN  IF iter # {}
             THEN StartsWith(module_path, NextBack(iter))
             ELSE FALSE

(***************************************************************************)
(* The sink's configuration.                                               *)
(***************************************************************************)
\* builder sinks the program holds; Installed names the boxed clone that
\* init() hands to the facade
Builders == {1, 2}
Installed == 0
SinkIds == Builders \cup {Installed}

\* StdErrLog::new
new == [verbosity |-> Error, quiet |-> FALSE, timestamp |-> "Off", modules |-> {}]

\* the match in verbosity() with the arms for 3 and _ swapped
LevelOfSwapped(v) ==
    CASE v = 0 -> Error
      [] v = 1 -> Warn
      [] v = 2 -> Info
      [] v = 3 -> Trace
      [] OTHER -> Debug

\* the match in StdErrLog::verbosity
LevelOf(v) ==
    CASE v = 0 -> Error
      [] v = 1 -> Warn
      [] v = 2 -> Info
      [] v = 3 -> Debug
      [] OTHER -> Trace

\* a filter that forgets the quiet flag
log_level_filter_loud(self) == self.verbosity

\* StdErrLog::log_level_filter
log_level_filter(self) == IF self.quiet THEN Off ELSE self.verbosity

\* <StdErrLog as log::Log>::enabled
enabled(self, level) == level <= log_level_filter(self)

VARIABLES
    sinks,          \* builder sink -> its configuration
    setterArgs,     \* builder sink -> the last argument of verbosity() and quiet()
    probe,          \* the last includes_module() call and what it returned
    logger,         \* the facade's LOGGER: empty, or the boxed clone's configuration
    max_log_level,  \* the facade's MAX_LOG_LEVEL_FILTER
    initLog,        \* the init() calls so far and their results
    writer,         \* sink -> thread -> handle (0: none yet), the CachedThreadLocal
    handles,        \* handle -> the LineWriter's state and who made it
    stderr,         \* the bytes standard error received, as pieces of log lines
    stack,          \* thread -> its log() frames, innermost last
    ncalls,         \* thread -> log() calls it has started
    panicked,       \* thread -> whether it has panicked
    ended,          \* thread -> the log() calls its last return or panic ended
    nfail           \* stderr writes that have failed

vars == <<sinks, setterArgs, probe, logger, max_log_level, initLog, writer,
          handles, stderr, stack, ncalls, panicked, ended, nfail>>

cfgVars == <<sinks, setterArgs>>
facadeVars == <<logger, max_log_level, initLog>>
logVars == <<writer, handles, stderr, stack, ncalls, panicked, ended, nfail>>

NoHandle == 0

\* everything but the builder sinks, as the process starts
InitRest ==
    /\ probe = [asked |-> FALSE, modules |-> {}, path |-> <<>>, result |-> FALSE]
    /\ logger = <<>>
    /\ max_log_level = Off
    /\ initLog = <<>>
    /\ writer = [s \in SinkIds |-> [t \in Threads |-> NoHandle]]
    /\ handles = <<>>
    /\ stderr = <<>>
    /\ stack = [t \in Threads |-> <<>>]
    /\ ncalls = [t \in Threads |-> 0]
    /\ panicked = [t \in Threads |-> FALSE]
    /\ ended = [t \in Threads |-> {}]
    /\ nfail = 0

\* the sinks as new() builds them
InitState ==
    /\ sinks = [s \in Builders |-> new]
    /\ setterArgs = [s \in Builders |->
                        [verbosityCalled |-> FALSE, verbosity |-> 0,
                         quietCalled |-> FALSE, quiet |-> FALSE]]
    /\ InitRest

\* sink 1 as new().verbosity(v).quiet(q).timestamp(ts).modules(ms) leaves it
InitConfigured(v, q, ts, ms) ==
    /\ sinks = [s \in Builders |->
                   IF s = 1
                   THEN [verbosity |-> LevelOf(v), quiet |-> q,
                         timestamp |-> ts, modules |-> ms]
                   ELSE new]
    /\ setterArgs = [s \in Builders |->
                        IF s = 1
                        THEN [verbosityCalled |-> TRUE, verbosity |-> v,
                              quietCalled |-> TRUE, quiet |-> q]
                        ELSE [verbosityCalled |-> FALSE, verbosity |-> 0,
                              quietCalled |-> FALSE, quiet |-> FALSE]]
    /\ InitRest

\* no thread is inside log(): a setter needs &mut self
Idle == \A t \in Threads : stack[t] = <<>>

(***************************************************************************)
(* The builder setters.                                                    *)
(***************************************************************************)
verbosity(s, v) ==
    /\ Idle
    /\ sinks' = [sinks EXCEPT ![s].verbosity = LevelOf(v)]
    /\ setterArgs' = [setterArgs EXCEPT ![s].verbosityCalled = TRUE,
                                         ![s].verbosity = v]
    /\ UNCHANGED <<probe, facadeVars, logVars>>

quiet(s, q) ==
    /\ Idle
    /\ sinks' = [sinks EXCEPT ![s].quiet = q]
    /\ setterArgs' = [setterArgs EXCEPT ![s].quietCalled = TRUE,
                                         ![s].quiet = q]
    /\ UNCHANGED <<probe, facadeVars, logVars>>

timestamp(s, ts) ==
    /\ Idle
    /\ sinks' = [sinks EXCEPT ![s].timestamp = ts]
    /\ UNCHANGED <<setterArgs, probe, facadeVars, logVars>>

module(s, m) ==
    /\ Idle
    /\ sinks' = [sinks EXCEPT ![s].modules = @ \cup {m}]
    /\ UNCHANGED <<setterArgs, probe, facadeVars, logVars>>

modules(s, ms) ==
    /\ Idle
    /\ sinks' = [sinks EXCEPT ![s].modules = @ \cup ms]
    /\ UNCHANGED <<setterArgs, probe, facadeVars, logVars>>

\* a call of includes_module on sink s
IncludesModule(s, p) ==
    /\ probe' = [asked |-> TRUE, modules |-> sinks[s].modules, path |-> p,
                 result |-> includes_module(sinks[s].modules, p)]
    /\ UNCHANGED <<cfgVars, facadeVars, logVars>>

(***************************************************************************)
(* Installation through the facade.                                        *)
(***************************************************************************)
\* a clone that keeps the thread-local writers of the original
CloneShared(self, selfWriter) == [cfg |-> self, writer |-> selfWriter]

\* impl Clone for StdErrLog: the configuration, and a fresh CachedThreadLocal
Clone(self, selfWriter) ==
    [cfg |-> self, writer |-> [t \in Threads |-> NoHandle]]

\* a facade slot that can be set again
AlwaysUninitialized == TRUE

\* log::set_logger runs its closure only while no logger is installed
Uninitialized == logger = <<>>

\* StdErrLog::init
init(s) ==
    /\ Idle
    /\ Len(initLog) < MaxInit
    /\ IF Uninitialized
       THEN LET boxed == Clone(sinks[s], writer[s])
            IN  /\ max_log_level' = log_level_filter(sinks[s])
                /\ logger' = <<boxed.cfg>>
                /\ writer' = [writer EXCEPT ![Installed] = boxed.writer]
                /\ initLog' = Append(initLog,
                                     [sink |-> s, result |-> "Ok", cfg |-> sinks[s]])
       ELSE /\ initLog' = Append(initLog,
                                 [sink |-> s, result |-> "Err", cfg |-> sinks[s]])
            /\ UNCHANGED <<logger, max_log_level, writer>>
    /\ UNCHANGED <<cfgVars, probe, handles, stderr, stack, ncalls, panicked,
                   ended, nfail>>

(***************************************************************************)
(* log(): the per-thread LineWriter<Stderr> and the bytes it hands to      *)
(* standard error.                                                         *)
(***************************************************************************)
\* io::LineWriter::new gives its BufWriter this capacity
BufCap == 1024
\* "{} - " of time::now().rfc3339(): 25 bytes and the separator
TsLen == 28
\* " - " between the level and the message
SepLen == 3
\* "\n" of writeln!
NlLen == 1

\* Display of log::LogLevel: ERROR, WARN, INFO, DEBUG, TRACE
LevelLen(level) == IF level \in {Warn, Info} THEN 4 ELSE 5

\* record.args(): its length in bytes, and whether formatting it emits a
\* log message of its own (a Display impl that logs)
ShortBody == [id |-> "short", len |-> 11, logs |-> FALSE]
LongBody == [id |-> "long", len |-> 2000, logs |-> FALSE]
LoggingBody == [id |-> "logging", len |-> 11, logs |-> TRUE]

\* the configuration behind a sink id
Cfg(s) == IF s = Installed THEN logger[1] ELSE sinks[s]

\* the parts of one line, in the order write! and writeln! hand them over
LineParts(ts, t, k, d, level, body) ==
    LET pc(part, n) == [t |-> t, k |-> k, d |-> d, part |-> part, len |-> n]
    IN  (IF ts = "Second" THEN <<pc("ts", TsLen)>> ELSE <<>>)
        \o <<pc("level", LevelLen(level)), pc("sep", SepLen),
             pc("body", body.len), pc("nl", NlLen)>>

RECURSIVE BufLen(_)
BufLen(buf) == IF buf = <<>> THEN 0 ELSE Head(buf).len + BufLen(Tail(buf))

PartsOf(pieces) == [i \in 1 .. Len(pieces) |-> pieces[i].part]

\* an error of write!/writeln! unwrapped instead of dropped
OnWriteErrUnwrap == "panic"

\* `let _ = write!(..)`: the io::Result is dropped
OnWriteErr == "discard"

Top(t) == stack[t][Len(stack[t])]

\* the top-level log() calls threads 1 .. n have made
RECURSIVE CallsOf(_)
CallsOf(n) == IF n = 0 THEN 0 ELSE ncalls[n] + CallsOf(n - 1)

\* the record of a call that has ended
Ended(t, f, outcome) ==
    [t |-> t, k |-> f.k, d |-> f.d, sink |-> f.sink, level |-> f.level,
     path |-> f.path, body |-> f.body.id, passes |-> f.passes, ts |-> f.ts,
     outcome |-> outcome, wrote |-> f.wrote, failed |-> f.failed]

\* thread t unwinds: every frame ends, and each RefMut it held is dropped
Unwind(t, frames, hs) ==
    /\ panicked' = [panicked EXCEPT ![t] = TRUE]
    /\ stack' = [stack EXCEPT ![t] = <<>>]
    /\ ended' = [ended EXCEPT ![t] =
                    {Ended(t, frames[i], "panicked") : i \in 1 .. Len(frames)}]
    /\ handles' = [h \in 1 .. Len(hs) |->
                     IF \E i \in 1 .. Len(frames) : frames[i].h = h
                     THEN [hs[h] EXCEPT !.borrowed = FALSE]
                     ELSE hs[h]]

\* the top frame f of thread t returns; the formatting of the caller's
\* message, if this was a call made from it, goes on
Return(t, f, hs) ==
    LET rest == SubSeq(stack[t], 1, Len(stack[t]) - 1)
    IN  /\ stack' = [stack EXCEPT ![t] =
                        IF rest = <<>> THEN rest
                        ELSE [rest EXCEPT ![Len(rest)].nested = TRUE]]
        /\ ended' = [ended EXCEPT ![t] = {Ended(t, f, "returned")}]
        /\ handles' = IF f.h = NoHandle THEN hs
                      ELSE [hs EXCEPT ![f.h].borrowed = FALSE]
        /\ UNCHANGED panicked

\* the top frame f of thread t goes on
Continue(t, f, hs) ==
    /\ stack' = [stack EXCEPT ![t][Len(stack[t])] = f]
    /\ handles' = hs
    /\ UNCHANGED <<ended, panicked>>

Proceed(t, f, hs) ==
    IF f.todo = <<>> THEN Return(t, f, hs) ELSE Continue(t, f, hs)

\* <StdErrLog as log::Log>::log, up to the first write: the level check, the
\* module filter, get_or and borrow_mut
Log(t, s, level, path, body) ==
    /\ ~panicked[t]
    /\ s = Installed => logger # <<>>
    /\ \/ stack[t] = <<>> /\ CallsOf(NThreads) < MaxCalls
       \/ /\ stack[t] # <<>>
          /\ Top(t).todo # <<>>
          /\ Head(Top(t).todo).part = "body"
          /\ Top(t).body.logs
          /\ ~Top(t).nested
          /\ ~body.logs
    /\ LET self == Cfg(s)
           top == stack[t] = <<>>
           k == IF top THEN ncalls[t] + 1 ELSE ncalls[t]
           d == Len(stack[t]) + 1
           passes == enabled(self, level) /\ includes_module(self.modules, path)
           old == writer[s][t]
           h == IF old = NoHandle THEN Len(handles) + 1 ELSE old
           hs == IF old = NoHandle
                 THEN Append(handles, [sink |-> s, thread |-> t, buf |-> <<>>,
                                       borrowed |-> FALSE])
                 ELSE handles
           f == [sink |-> s, k |-> k, d |-> d, level |-> level, path |-> path,
                 body |-> body, passes |-> passes, ts |-> self.timestamp,
                 h |-> IF passes THEN h ELSE NoHandle,
                 todo |-> IF passes
                          THEN LineParts(self.timestamp, t, k, d, level, body)
                          ELSE <<>>,
                 nested |-> FALSE, wrote |-> <<>>, failed |-> FALSE]
       IN  /\ ncalls' = [ncalls EXCEPT ![t] = k]
           /\ IF ~passes
              THEN /\ ended' = [ended EXCEPT ![t] = {Ended(t, f, "returned")}]
                   /\ stack' = [stack EXCEPT ![t] =
                                   IF top THEN <<>>
                                   ELSE [@ EXCEPT ![Len(@)].nested = TRUE]]
                   /\ UNCHANGED <<writer, handles, panicked>>
              ELSE /\ writer' = [writer EXCEPT ![s][t] = h]
                   /\ IF hs[h].borrowed
                      THEN Unwind(t, Append(stack[t], f), hs)
                      ELSE /\ stack' = [stack EXCEPT ![t] = Append(@, f)]
                           /\ handles' = [hs EXCEPT ![h].borrowed = TRUE]
                           /\ UNCHANGED <<ended, panicked>>
    /\ UNCHANGED <<cfgVars, probe, facadeVars, stderr, nfail>>

\* the formatting of the message is about to start, and it logs
AtNestedLog(f) ==
    /\ f.todo # <<>>
    /\ Head(f.todo).part = "body"
    /\ f.body.logs
    /\ ~f.nested

\* what LineWriter::write does with the next part: BufWriter::write flushes
\* a buffer the part does not fit in, passes a part of BufCap bytes or more
\* straight on, and buffers any other; LineWriter flushes after a newline
WriteKind(f, buf) ==
    LET p == Head(f.todo)
    IN  IF buf # <<>> /\ BufLen(buf) + p.len > BufCap THEN "flush_buf"
        ELSE IF p.len >= BufCap THEN "direct"
        ELSE IF p.part = "nl" THEN "line"
        ELSE "buffer"

\* the frame and the handle's buffer once the leading parts that are only
\* buffered (no write to standard error, nothing another thread can see)
\* have been taken
RECURSIVE Buffered(_, _)
Buffered(f, buf) ==
    IF f.todo = <<>> \/ AtNestedLog(f) \/ WriteKind(f, buf) # "buffer"
    THEN [f |-> f, buf |-> buf]
    ELSE Buffered([f EXCEPT !.todo = Tail(@),
                            !.wrote = Append(@, Head(f.todo).part)],
                  Append(buf, Head(f.todo)))

\* the thread is inside write!/writeln!
CanWrite(t) ==
    /\ stack[t] # <<>>
    /\ Top(t).todo # <<>>
    /\ ~AtNestedLog(Top(t))

\* write!/writeln! on the thread's handle, up to and including its next
\* write to standard error, which succeeds (or up to the point where the
\* formatting of the message logs)
Write(t) ==
    /\ CanWrite(t)
    /\ LET b == Buffered(Top(t), handles[Top(t).h].buf)
           f == b.f
           buf == b.buf
           h == f.h
           p == Head(f.todo)
           kind == WriteKind(f, buf)
           took == [f EXCEPT !.todo = Tail(@), !.wrote = Append(@, p.part)]
       IN  IF AtNestedLog(f)
           THEN /\ stderr' = stderr
                /\ Continue(t, f, [handles EXCEPT ![h].buf = buf])
           ELSE CASE kind = "flush_buf" ->
                       /\ stderr' = stderr \o buf
                       /\ Continue(t, f, [handles EXCEPT ![h].buf = <<>>])
                  [] kind = "direct" ->
                       /\ stderr' = Append(stderr, p)
                       /\ Proceed(t, took, [handles EXCEPT ![h].buf = buf])
                  [] OTHER ->
                       /\ stderr' = stderr \o Append(buf, p)
                       /\ Proceed(t, took, [handles EXCEPT ![h].buf = <<>>])
    /\ UNCHANGED <<cfgVars, probe, facadeVars, writer, ncalls, nfail>>

\* the same, the write to standard error failing: a failed flush after a
\* newline is swallowed by LineWriter and the line stays buffered; any
\* other failure ends the macro with an Err, which log() drops
WriteFail(t) ==
    /\ CanWrite(t)
    /\ nfail < MaxFail
    /\ LET b == Buffered(Top(t), handles[Top(t).h].buf)
           f == b.f
           buf == b.buf
           h == f.h
           p == Head(f.todo)
           kind == WriteKind(f, buf)
           took == [f EXCEPT !.todo = Tail(@), !.wrote = Append(@, p.part),
                             !.failed = TRUE]
           gaveUp == [f EXCEPT !.todo = IF p.part = "ts" THEN Tail(@) ELSE <<>>,
                               !.failed = TRUE]
           kept == [handles EXCEPT ![h].buf = buf]
       IN  /\ ~AtNestedLog(f)
           /\ IF kind = "line"
              THEN Proceed(t, took, [handles EXCEPT ![h].buf = Append(buf, p)])
              ELSE IF OnWriteErr = "discard"
                   THEN Proceed(t, gaveUp, kept)
                   ELSE Unwind(t, [stack[t] EXCEPT ![Len(stack[t])] = gaveUp],
                               kept)
    /\ nfail' = nfail + 1
    /\ UNCHANGED <<cfgVars, probe, facadeVars, writer, ncalls, stderr>>

(***************************************************************************)
(* SpecInit: two sinks are configured and installed, in any order.         *)
(***************************************************************************)
NextInit ==
    \/ \E s \in Builders : verbosity(s, 3)
    \/ \E s \in Builders, q \in BOOLEAN : quiet(s, q)
    \/ \E s \in Builders : timestamp(s, "Second")
    \/ \E s \in Builders : module(s, P_a_b)
    \/ \E s \in Builders : init(s)

SpecInit == InitState /\ [][NextInit]_vars

(***************************************************************************)
(* SpecFilter: one sink's allow-set is built up and queried.               *)
(***************************************************************************)
NextFilter ==
    \/ \E m \in RegPaths : module(1, m)
    \/ \E ms \in SUBSET RegPaths : Cardinality(ms) = 2 /\ modules(1, ms)
    \/ \E p \in QueryPaths : IncludesModule(1, p)

SpecFilter == InitState /\ [][NextFilter]_vars

(***************************************************************************)
(* SpecSetters: every setter, in any order, on one sink.                   *)
(***************************************************************************)
NextSetters ==
    \/ \E v \in 0 .. MaxVerbosity : verbosity(1, v)
    \/ \E q \in BOOLEAN : quiet(1, q)
    \/ \E ts \in Timestamps : timestamp(1, ts)
    \/ \E m \in {P_a, P_a_b} : module(1, m)
    \/ modules(1, {P_a_b, P_z})

SpecSetters == InitState /\ [][NextSetters]_vars

(***************************************************************************)
(* The process after new().verbosity(v).quiet(q).timestamp(ts).modules(ms) *)
(* on sink 1 and a first init() of it.                                     *)
(***************************************************************************)
InitInstalled(v, q, ts, ms) ==
    LET self == [verbosity |-> LevelOf(v), quiet |-> q, timestamp |-> ts,
                 modules |-> ms]
    IN  /\ sinks = [s \in Builders |-> IF s = 1 THEN self ELSE new]
        /\ setterArgs = [s \in Builders |->
                            IF s = 1
                            THEN [verbosityCalled |-> TRUE, verbosity |-> v,
                                  quietCalled |-> TRUE, quiet |-> q]
                            ELSE [verbosityCalled |-> FALSE, verbosity |-> 0,
                                  quietCalled |-> FALSE, quiet |-> FALSE]]
        /\ probe = [asked |-> FALSE, modules |-> {}, path |-> <<>>,
                    result |-> FALSE]
        /\ logger = <<Clone(self, [t \in Threads |-> NoHandle]).cfg>>
        /\ max_log_level = log_level_filter(self)
        /\ initLog = <<[sink |-> 1, result |-> "Ok", cfg |-> self]>>
        /\ writer = [s \in SinkIds |-> [t \in Threads |-> NoHandle]]
        /\ handles = <<>>
        /\ stderr = <<>>
        /\ stack = [t \in Threads |-> <<>>]
        /\ ncalls = [t \in Threads |-> 0]
        /\ panicked = [t \in Threads |-> FALSE]
        /\ ended = [t \in Threads |-> {}]
        /\ nfail = 0

(***************************************************************************)
(* SpecLog: log() on the installed logger.  Thread 1 logs at any level,    *)
(* from any module, messages whose formatting may itself log; the other    *)
(* threads log plain messages; a write to standard error may fail.         *)
(***************************************************************************)
InitLog ==
    \E v \in {0, 3}, q \in BOOLEAN, ts \in Timestamps, ms \in {{}, {P_a_b}} :
        InitInstalled(v, q, ts, ms)

NextLog ==
    \/ \E level \in {Error, Debug}, path \in {P_a_b_c, P_a_c},
          body \in {ShortBody, LongBody, LoggingBody} :
          Log(1, Installed, level, path, body)
    \/ \E t \in Threads \ {1} : Log(t, Installed, Error, P_a_b_c, ShortBody)
    \/ \E t \in Threads : Write(t)
    \/ \E t \in Threads : WriteFail(t)

SpecLog == InitLog /\ [][NextLog]_vars

(***************************************************************************)
(* SpecConc: the threads log concurrently through the installed logger;    *)
(* every call is enabled and passes the module filter.                     *)
(***************************************************************************)
InitConc == \E ts \in Timestamps : InitInstalled(2, FALSE, ts, {P_a_b})

NextConc ==
    \/ \E t \in Threads, body \in {ShortBody, LongBody} :
          Log(t, Installed, Info, P_a_b_c, body)
    \/ \E t \in Threads : Write(t)

SpecConc == InitConc /\ [][NextConc]_vars

(***************************************************************************)
(* SpecFail: the threads log concurrently through the installed logger     *)
(* while writes to standard error may fail; thread 1 also logs messages    *)
(* longer than its handle's buffer.                                        *)
(***************************************************************************)
InitFail == \E ts \in Timestamps : InitInstalled(2, FALSE, ts, {P_a_b})

NextFail ==
    \/ \E body \in {ShortBody, LongBody} : Log(1, Installed, Error, P_a_b_c, body)
    \/ \E t \in Threads \ {1} : Log(t, Installed, Error, P_a_b_c, ShortBody)
    \/ \E t \in Threads : Write(t)
    \/ \E t \in Threads : WriteFail(t)

SpecFail == InitFail /\ [][NextFail]_vars

(***************************************************************************)
(* SpecHandles: the threads log on a sink and, once init() has installed   *)
(* it, on its clone.                                                       *)
(***************************************************************************)
InitHandles == InitConfigured(2, FALSE, "Off", {P_a_b})

NextHandles ==
    \/ init(1)
    \/ \E t \in Threads, s \in {1, Installed}, level \in {Info, Debug},
          path \in {P_a_b_c, P_a_c} :
          Log(t, s, level, path, ShortBody)
    \/ \E t \in Threads : Write(t)

SpecHandles == InitHandles /\ [][NextHandles]_vars

(***************************************************************************)
(* C1: with a non-empty allow-set, a module path that has a registered     *)
(* string prefix (an ancestor or an exact match) is included.              *)
(***************************************************************************)
C1_AncestorIncluded ==
    (/\ probe.asked
     /\ probe.modules # {}
     /\ \E m \in probe.modules : StartsWith(probe.path, m))
    => probe.result

(***************************************************************************)
(* C2: with a non-empty allow-set, a module path is included only if a     *)
(* registered element is a literal string prefix of it; it is excluded     *)
(* when no registered element is <= the path, and when the greatest such   *)
(* element is not a prefix of the path.  With {"a::b"}: "a::b" and its     *)
(* descendants are included, "a::c" and "a" are not; "ab" admits "abc".    *)
(***************************************************************************)
C2_IncludedOnlyByPrefix ==
    (probe.asked /\ probe.modules # {}) =>
        /\ probe.result => \E m \in probe.modules : StartsWith(probe.path, m)
        /\ (\A m \in probe.modules : ~StrLeq(m, probe.path)) => ~probe.result
        /\ \A g \in probe.modules :
              (/\ StrLeq(g, probe.path)
               /\ \A o \in probe.modules : StrLeq(o, probe.path) => StrLeq(o, g)
               /\ ~StartsWith(probe.path, g))
              => ~probe.result
        /\ probe.modules = {P_a_b} =>
              (probe.result <=> probe.path \in {P_a_b, P_a_b_c, P_a_b_z})
        /\ (probe.modules = {P_ab} /\ probe.path = P_abc) => probe.result

C2_Witness ==
    \/ probe.asked /\ probe.modules = {P_ab} /\ probe.path = P_abc /\ probe.result
    \/ probe.asked /\ probe.modules = {P_a_b} /\ probe.path = P_a /\ ~probe.result

(***************************************************************************)
(* C3: after any sequence of setter calls on a sink built by new(), the    *)
(* effective threshold is Off if the last quiet() call passed true, and    *)
(* otherwise the table value of the last verbosity() count (Error when     *)
(* verbosity() was never called); when quiet, no level is enabled.         *)
(***************************************************************************)
C3_Table(v) ==
    IF v = 0 THEN Error
    ELSE IF v = 1 THEN Warn
    ELSE IF v = 2 THEN Info
    ELSE IF v = 3 THEN Debug
    ELSE Trace

C3_ThresholdFollowsLastSetters ==
    \A s \in Builders :
        LET a == setterArgs[s]
            isQuiet == a.quietCalled /\ a.quiet
        IN  /\ log_level_filter(sinks[s]) =
                  IF isQuiet THEN Off
                  ELSE IF a.verbosityCalled THEN C3_Table(a.verbosity)
                  ELSE Error
            /\ isQuiet => \A level \in LogLevels : ~enabled(sinks[s], level)
            /\ ~isQuiet => enabled(sinks[s], Error)

C3_Witness ==
    /\ setterArgs[1].quietCalled /\ setterArgs[1].quiet
    /\ setterArgs[1].verbosityCalled /\ setterArgs[1].verbosity >= 4
    /\ sinks[1].timestamp = "Second"
    /\ sinks[1].modules # {}

(***************************************************************************)
(* C5: of the init() calls of one process only the first succeeds; every   *)
(* later one, on the same or another sink, returns the already-initialized *)
(* error and leaves the installed logger's configuration and the global    *)
(* maximum level as the first init() set them.                             *)
(***************************************************************************)
C5_OnlyFirstInitSucceeds ==
    /\ initLog = <<>> => logger = <<>>
    /\ initLog # <<>> =>
          /\ initLog[1].result = "Ok"
          /\ \A i \in 2 .. Len(initLog) : initLog[i].result = "Err"
          /\ logger = <<initLog[1].cfg>>
          /\ max_log_level = IF initLog[1].cfg.quiet THEN Off
                             ELSE initLog[1].cfg.verbosity

C5_Witness ==
    /\ Len(initLog) >= 2
    /\ initLog[2].sink # initLog[1].sink
    /\ initLog[2].cfg.verbosity # initLog[1].cfg.verbosity
    /\ initLog[2].cfg.quiet # initLog[1].cfg.quiet

(***************************************************************************)
(* C6: a successful init() sets the global maximum level to the sink's     *)
(* effective threshold at that moment (Error for a sink that only had      *)
(* module() called) and installs a copy of its threshold, quiet flag,      *)
(* timestamp mode and module set; no later call changes the installed      *)
(* logger or the global maximum level.                                     *)
(***************************************************************************)
C6_InstallCopiesAndFreezes ==
    [][/\ (logger = <<>> /\ logger' # <<>>) =>
             \E s \in Builders :
                /\ logger' = <<sinks[s]>>
                /\ max_log_level' = IF sinks[s].quiet THEN Off
                                    ELSE sinks[s].verbosity
                /\ (sinks[s].verbosity = Error /\ ~sinks[s].quiet)
                      => max_log_level' = Error
                /\ sinks' = sinks
       /\ logger = <<>> => max_log_level = Off
       /\ logger # <<>> => (logger' = logger /\ max_log_level' = max_log_level)
      ]_vars

C6_Witness ==
    /\ logger # <<>>
    /\ initLog[1].cfg.quiet
    /\ max_log_level = Off
    /\ sinks[initLog[1].sink] # logger[1]
    /\ ~sinks[initLog[1].sink].quiet

(***************************************************************************)
(* C4: a log() call writes exactly one line, "<LEVEL> - <body>" (after     *)
(* "<timestamp> - " only in timestamp mode Second), to the calling         *)
(* thread's handle when its level is enabled and the module filter         *)
(* includes its module path; in every other case it returns having        *)
(* written nothing.  (Stated of the calls no write failure touched.)       *)
(***************************************************************************)
C4_Line(ts) ==
    (IF ts = "Second" THEN <<"ts">> ELSE <<>>) \o <<"level", "sep", "body", "nl">>

C4_OneLineIffEnabledAndIncluded ==
    \A t \in Threads : \A c \in ended[t] :
        ~c.failed =>
            LET self == Cfg(c.sink)
                threshold == IF self.quiet THEN Off ELSE self.verbosity
                shown == /\ c.level <= threshold
                         /\ self.modules = {} \/ includes_module(self.modules, c.path)
            IN  /\ c.outcome = "returned"
                /\ c.wrote = IF shown THEN C4_Line(self.timestamp) ELSE <<>>

(***************************************************************************)
(* C7: when the threads have made all their enabled, filter-passing        *)
(* log() calls concurrently on the installed sink, standard error holds    *)
(* exactly one complete line per call, each the contiguous parts of a      *)
(* single call with no part of another thread's call inside it.            *)
(***************************************************************************)
RECURSIVE C7_WholeLines(_, _)
C7_WholeLines(bytes, line) ==
    IF bytes = <<>> THEN TRUE
    ELSE /\ Len(bytes) >= Len(line)
         /\ \A i \in 1 .. Len(line) :
               /\ bytes[i].part = line[i]
               /\ bytes[i].t = bytes[1].t
               /\ bytes[i].k = bytes[1].k
         /\ C7_WholeLines(SubSeq(bytes, Len(line) + 1, Len(bytes)), line)

C7_NoTornLines ==
    (CallsOf(NThreads) = MaxCalls /\ \A t \in Threads : stack[t] = <<>>) =>
        /\ C7_WholeLines(stderr, C4_Line(logger[1].timestamp))
        /\ Len(stderr) = MaxCalls * Len(C4_Line(logger[1].timestamp))

(***************************************************************************)
(* C8: a write failure on standard error during log() is discarded: the    *)
(* step in which the write fails neither panics the thread nor changes     *)
(* the configuration, the facade or the handles' owners, and a call it     *)
(* ends returns normally.                                                  *)
(***************************************************************************)
C8_WriteFailureDiscarded ==
    [][nfail' > nfail =>
          /\ panicked' = panicked
          /\ sinks' = sinks
          /\ logger' = logger
          /\ max_log_level' = max_log_level
          /\ writer' = writer
          /\ \A t \in Threads : \A c \in ended'[t] :
                c \notin ended[t] => c.outcome = "returned"
          /\ \A t \in Threads :
                stack'[t] # stack[t] =>
                   \/ stack'[t] = SubSeq(stack[t], 1, Len(stack[t]) - 1)
                   \/ Len(stack'[t]) = Len(stack[t])
      ]_vars

C8_Witness ==
    /\ nfail > 0
    /\ \E c \in ended[1] :
          /\ c.k = 2
          /\ c.outcome = "returned"
          /\ ~c.failed
          /\ c.wrote # <<>>
    /\ \E i \in 1 .. Len(stderr) :
          stderr[i].t = 1 /\ stderr[i].k = 2 /\ stderr[i].part = "nl"
    /\ \E c \in ended[2] : c.outcome = "returned" /\ ~c.failed /\ c.wrote # <<>>
    /\ \E i \in 1 .. Len(stderr) : stderr[i].t = 2 /\ stderr[i].part = "nl"

(***************************************************************************)
(* C9: each output handle of a sink is used only by the thread that made   *)
(* it: a thread makes its handle for a sink at most once, on a log() call  *)
(* that passes the level check and the module filter, no two threads or    *)
(* sinks hold the same handle, and the clone init() installs starts with   *)
(* no handles and never uses one of the sink it was cloned from.           *)
(***************************************************************************)
C9_HandlesThreadOwned ==
    /\ \A s \in SinkIds, t \in Threads :
          writer[s][t] # NoHandle =>
             /\ writer[s][t] \in DOMAIN handles
             /\ handles[writer[s][t]].thread = t
             /\ handles[writer[s][t]].sink = s
    /\ \A s1 \in SinkIds, s2 \in SinkIds, t1 \in Threads, t2 \in Threads :
          (writer[s1][t1] # NoHandle /\ writer[s1][t1] = writer[s2][t2])
             => (s1 = s2 /\ t1 = t2)
    /\ \A i \in DOMAIN handles, j \in DOMAIN handles :
          (handles[i].sink = handles[j].sink /\ handles[i].thread = handles[j].thread)
             => i = j
    /\ \A t \in Threads : \A i \in DOMAIN stack[t] :
          LET f == stack[t][i]
          IN  /\ f.passes
              /\ f.h = writer[f.sink][t]
              /\ handles[f.h].thread = t
              /\ handles[f.h].sink = f.sink
    /\ \A t \in Threads : \A c \in ended[t] :
          /\ c.passes => writer[c.sink][t] # NoHandle
          /\ (writer[c.sink][t] = NoHandle) => c.wrote = <<>>
    /\ logger = <<>> => \A t \in Threads : writer[Installed][t] = NoHandle
    /\ \A i \in 1 .. Len(stderr) :
          \E h \in DOMAIN handles : handles[h].thread = stderr[i].t

C9_Witness ==
    /\ writer[1][1] # NoHandle
    /\ writer[Installed][1] # NoHandle
    /\ writer[Installed][2] # NoHandle
    /\ writer[1][1] < writer[Installed][2]
    /\ writer[Installed][2] < writer[Installed][1]
    /\ \E c \in ended[1] : c.passes /\ c.k = 2 /\ c.sink = Installed

(***************************************************************************)
(* C10: a log() call made while the same thread is still inside log() on   *)
(* the same sink (the formatting of the outer message logs) completes:     *)
(* no thread panics on a writer that is already mutably borrowed.          *)
(***************************************************************************)
C10_ReentrantLogCompletes ==
    \A t \in Threads :
        /\ ~panicked[t]
        /\ \A c \in ended[t] : c.outcome = "returned"

====
